---- MODULE Spec2Model ----
(***************************************************************************)
(* NasAccess (src/src/NAS_Access/nas_access.py): an OpenMDAO component     *)
(* that stages input files on NAS, submits a PBS job through `sup ssh`,    *)
(* polls `qstat -f` until the job is finished, and copies the output files *)
(* back.                                                                   *)
(*                                                                         *)
(* Strings are sequences of pieces.  Text that the code parses (process    *)
(* output, file names, host names, the literals it searches for) is kept   *)
(* character by character; words of a command line that are only ever      *)
(* concatenated are kept whole.  An optional value (None or a value) is a  *)
(* sequence of length 0 or 1.                                              *)
(***************************************************************************)
EXTENDS Integers, Sequences, FiniteSets, TLC

(***************************************************************************)
(* Bounds of the model.                                                    *)
(***************************************************************************)
\* the wall clock runs from 0 to MaxTime
MaxTime == 2
\* at most MaxProcs child processes are spawned in one behaviour
MaxProcs == 4
\* a status query prints at most MaxLines lines on its standard output
MaxLines == 2
\* at most MaxCancels calls of delete_job spawn a qdel in one behaviour
MaxCancels == 1

(***************************************************************************)
(* Python values.                                                          *)
(***************************************************************************)
None == << >>
Some(v) == << v >>
\* '{}'.format(x) of an optional string
Format(o) == IF o = None THEN <<"N","o","n","e">> ELSE o[1]
\* bool(x) of an optional string: None and '' are false
TruthyStr(o) == o # None /\ o[1] # << >>
\* bool(x) of an optional return code: None and 0 are false
TruthyCode(o) == o # None /\ o[1] # 0

Letter == {"a","b","c","d","e","f","g","h","i","j","k","l","m","n","o","p","q",
           "r","s","t","u","v","w","x","y","z","A","B","C","D","E","F","G","H",
           "I","J","K","L","M","N","O","P","Q","R","S","T","U","V","W","X","Y","Z"}
Digit == {"0","1","2","3","4","5","6","7","8","9"}
Whitespace == {" ", "\n", "\t"}

\* sub in text
Contains(text, sub) ==
    \E i \in 0..(Len(text) - Len(sub)) :
        \A k \in 1..Len(sub) : text[i + k] = sub[k]

RECURSIVE Join(_, _)
\* sep.join(items)
Join(items, sep) ==
    IF items = << >> THEN << >>
    ELSE IF Len(items) = 1 THEN items[1]
    ELSE items[1] \o sep \o Join(Tail(items), sep)

RECURSIVE SplitOn(_, _, _)
\* text.split(sep) for a one-character sep; cur is the component being read
SplitOn(text, sep, cur) ==
    IF text = << >> THEN << cur >>
    ELSE IF Head(text) = sep THEN << cur >> \o SplitOn(Tail(text), sep, << >>)
    ELSE SplitOn(Tail(text), sep, Append(cur, Head(text)))

RECURSIVE SplitWhite(_, _)
\* text.split(): the maximal runs of non-whitespace characters
SplitWhite(text, cur) ==
    IF text = << >> THEN (IF cur = << >> THEN << >> ELSE << cur >>)
    ELSE IF Head(text) \in Whitespace
         THEN (IF cur = << >> THEN << >> ELSE << cur >>) \o SplitWhite(Tail(text), << >>)
    ELSE SplitWhite(Tail(text), Append(cur, Head(text)))

RECURSIVE ReadAll(_)
\* stream.read(): the lines of the stream, each ended by a newline
ReadAll(lines) ==
    IF lines = << >> THEN << >>
    ELSE Head(lines) \o <<"\n">> \o ReadAll(Tail(lines))

RECURSIVE SeqToSet(_)
SeqToSet(s) == IF s = << >> THEN {} ELSE {Head(s)} \cup SeqToSet(Tail(s))

\* the orders in which the elements of a set can be listed (a Python set is
\* iterated in an order the program does not choose)
Orders(S) == { q \in [1..Cardinality(S) -> S] : \A x \in S : \E i \in DOMAIN q : q[i] = x }

(***************************************************************************)
(* Regular expressions, as far as the code uses them: a pattern is a       *)
(* sequence of items, each matching one character (or, with plus, one or   *)
(* more): a literal, a letter, a digit, or any character but a newline.    *)
(***************************************************************************)
Lit(c) == [kind |-> "lit", ch |-> c, plus |-> FALSE]
AnyChar == [kind |-> "any", ch |-> ".", plus |-> FALSE]
OneLetter == [kind |-> "letter", ch |-> "", plus |-> FALSE]
OneDigit == [kind |-> "digit", ch |-> "", plus |-> FALSE]
Digits1 == [kind |-> "digit", ch |-> "", plus |-> TRUE]

ItemMatches(item, c) ==
    CASE item.kind = "lit" -> c = item.ch
      [] item.kind = "any" -> c # "\n"
      [] item.kind = "letter" -> c \in Letter
      [] item.kind = "digit" -> c \in Digit

\* the pattern of a literal text
Literal(text) == [k \in 1..Len(text) |-> Lit(text[k])]

\* the pattern a file name makes when it is put into a pattern with %s: a dot
\* matches any character, every other character of the names used is itself
NameAsPattern(name) ==
    [k \in 1..Len(name) |-> IF name[k] = "." THEN AnyChar ELSE Lit(name[k])]

RECURSIVE MatchAt(_, _, _, _)
\* pattern[j..] matches a prefix of text[i..]
MatchAt(text, i, pattern, j) ==
    IF j > Len(pattern) THEN TRUE
    ELSE IF i > Len(text) THEN FALSE
    ELSE IF ~ItemMatches(pattern[j], text[i]) THEN FALSE
    ELSE IF pattern[j].plus
         THEN MatchAt(text, i + 1, pattern, j) \/ MatchAt(text, i + 1, pattern, j + 1)
    ELSE MatchAt(text, i + 1, pattern, j + 1)

\* re.search(pattern, text) is not None
Search(pattern, text) == \E i \in 1..Len(text) : MatchAt(text, i, pattern, 1)

(***************************************************************************)
(* Texts of the program and of its environment.                            *)
(***************************************************************************)
\* self._nas_hostname, set in __init__ and never changed
nas_hostname_suffix == <<"n","a","s",".","n","a","s","a",".","g","o","v">>
JobHasFinished == <<"J","o","b"," ","h","a","s"," ","f","i","n","i","s","h","e","d">>
JobStateIs == <<"j","o","b","_","s","t","a","t","e"," ","="," ">>
Finished == <<"F","i","n","i","s","h","e","d">>
Unknown == <<"U","n","k","n","o","w","n">>
SendingFileModes == <<"S","e","n","d","i","n","g"," ","f","i","l","e"," ","m","o","d","e","s",":"," ">>
Sink == <<"S","i","n","k",":"," ">>

\* local files and option values the behaviours draw from
FileA == <<"a">>
FileAB == <<"a","b">>
FileO == <<"o">>
FileDO == <<"d","/","o","u">>
InputLists == { << >>, <<FileA, FileAB>> }
OutputLists == { << >>, <<FileDO, FileO>> }
HostNames == { << >>, <<"p","f","e","2","0">> }
WorkingDirectories == { << >>, <<"/u/wd">> }
QsubFilepaths == { << >>, <<"job.qsub">> }
QsubOptions == { <<"-q devel">> }

Options ==
    [ nas_username : { <<"hschilli">> },
      nas_hostname : HostNames,
      nas_working_directory : WorkingDirectories,
      remote_copy_command : { <<"scp">> },
      sup_verbose : { FALSE },
      qsub_filepath : QsubFilepaths,
      qsub_options : QsubOptions,
      external_input_files : InputLists,
      external_output_files : OutputLists,
      job_status_poll_delay : {0, 1},
      job_completion_timeout : {0, 1} ]

(***************************************************************************)
(* State.                                                                  *)
(***************************************************************************)
VARIABLES
    options,          \* self.options
    exists,           \* the local paths for which os.path.exists is true
    now,              \* time.time()
    pc,               \* where solve_nonlinear is
    error,            \* the exception solve_nonlinear ended with
    _sup_command,     \* self._sup_command (None: the attribute is not set)
    _scp_command,     \* self._scp_command
    _job_id,          \* self._job_id
    _pbs_server,      \* self._pbs_server
    _process,         \* self._process: an index of procs, 0 for None
    procs,            \* the child processes spawned so far, in order
    captured,         \* what the last wait of solve_nonlinear returned and the streams read
    job_status,       \* solve_nonlinear's job_status
    time_started,     \* solve_nonlinear's time_started
    time_since_start, \* solve_nonlinear's time_since_start
    pull_index,       \* _transfer_files_from_nas: position of filepath in the list
    run_base,         \* number of processes spawned before the current run began
    cpc,              \* where delete_job, called from another context, is
    cerror            \* the exception delete_job ended with

vars == << options, exists, now, pc, error, _sup_command, _scp_command, _job_id,
           _pbs_server, _process, procs, captured, job_status, time_started,
           time_since_start, pull_index, run_base, cpc, cerror >>

runVars == << pc, error, captured, job_status, time_started, time_since_start,
              pull_index, run_base >>
cancelVars == << cpc, cerror >>

NoError == [type |-> "", text |-> << >>, args |-> << >>]
\* an exception: its type, the fixed head of its message, the items joined after it
Exception(type, text, args) == [type |-> type, text |-> text, args |-> args]
\* str(err)
Message(e) == e.text \o Join(e.args, <<", ">>)

\* op: the operation that waited ("" when none has since the last spawn)
NothingCaptured ==
    [op |-> "", return_code |-> None, error_msg |-> << >>, stdout |-> << >>,
     stderr |-> << >>]

Init ==
    /\ options \in Options
    /\ exists \in SUBSET SeqToSet(options.external_input_files)
    /\ now = 0
    /\ pc = "idle"
    /\ error = NoError
    /\ _sup_command = None
    /\ _scp_command = None
    /\ _job_id = None
    /\ _pbs_server = None
    /\ _process = 0
    /\ procs = << >>
    /\ captured = NothingCaptured
    /\ job_status = Unknown
    /\ time_started = 0
    /\ time_since_start = 0
    /\ pull_index = 0
    /\ run_base = 0
    /\ cpc = "idle"
    /\ cerror = NoError

(***************************************************************************)
(* Child processes.                                                        *)
(***************************************************************************)
\* ShellProc(command, ...): a running child process, spawned by the context `by`;
\* files: the files its command copies
ShellProc(kind, command, files, by) ==
    [kind |-> kind, command |-> command, files |-> files, closed |-> FALSE, by |-> by]

\* self._process = ShellProc(...)
Spawn(kind, command, files, by) ==
    /\ Len(procs) < MaxProcs
    /\ procs' = Append(procs, ShellProc(kind, command, files, by))
    /\ _process' = Len(procs) + 1

\* self._process.close_files(); self._process = None
CloseAndClear ==
    /\ procs' = [procs EXCEPT ![_process].closed = TRUE]
    /\ _process' = 0

(***************************************************************************)
(* solve_nonlinear: the checks of the options and the command prefixes.    *)
(***************************************************************************)
\* MissingOption without the test of nas_hostname
MissingOption_NoHostname(o) ==
    IF o.qsub_filepath = << >> THEN Some(<<"qsub_filepath">>)
    ELSE IF o.nas_working_directory = << >> THEN Some(<<"nas_working_directory">>)
    ELSE None

\* the first required option found empty, in the order the code tests them
MissingOption(o) ==
    IF o.qsub_filepath = << >> THEN Some(<<"qsub_filepath">>)
    ELSE IF o.nas_working_directory = << >> THEN Some(<<"nas_working_directory">>)
    ELSE IF o.nas_hostname = << >> THEN Some(<<"nas_hostname">>)
    ELSE None

SupCommand(o) == IF o.sup_verbose THEN <<"sup", " -v">> ELSE <<"sup">>
ScpCommand(o) ==
    IF o.remote_copy_command = <<"scp">> THEN <<"scp", " -v">> ELSE o.remote_copy_command

Raise(e) ==
    /\ pc' = "failed"
    /\ error' = e

solve_nonlinear ==
    /\ pc = "idle"
    /\ cpc = "idle"
    /\ run_base' = Len(procs)
    /\ captured' = NothingCaptured
    /\ job_status' = Unknown
    /\ time_started' = 0
    /\ time_since_start' = 0
    /\ pull_index' = 0
    /\ UNCHANGED << options, exists, now, _job_id, _pbs_server, _process, procs,
                    cancelVars >>
    /\ IF MissingOption(options) # None
       THEN /\ Raise(Exception("ValueError",
                        <<"The option '">> \o MissingOption(options)[1] \o <<"' must be set">>,
                        << >>))
            /\ UNCHANGED << _sup_command, _scp_command >>
       ELSE /\ _sup_command' = Some(SupCommand(options))
            /\ _scp_command' = Some(ScpCommand(options))
            /\ pc' = "push"
            /\ error' = NoError

(***************************************************************************)
(* What a child process returns and prints is chosen by the environment.   *)
(***************************************************************************)
\* ShellProc.wait: (return_code, error_msg); the code is None when the wait timed out
WaitResults ==
    { [return_code |-> Some(0), error_msg |-> << >>],
      [return_code |-> Some(1), error_msg |-> <<"lost connection">>],
      [return_code |-> None, error_msg |-> <<"Timed out">>] }

ModeToken == <<"C","0","6","4","4">>
SizeTokens == { <<"6">>, <<"1","2">> }
\* the two lines scp -v prints on stderr for a file it copied
SendingLine(size, name) == SendingFileModes \o ModeToken \o <<" ">> \o size \o <<" ">> \o name
SinkLine(size, name) == Sink \o ModeToken \o <<" ">> \o size \o <<" ">> \o name

RECURSIVE MarkerLines(_, _, _)
\* the marker lines of the files of `names` that `present` selects, file by file
MarkerLines(names, size, present) ==
    IF names = << >> THEN << >>
    ELSE (IF <<"Sending", Head(names)>> \in present
          THEN << SendingLine(size, Head(names)) >> ELSE << >>)
         \o (IF <<"Sink", Head(names)>> \in present
             THEN << SinkLine(size, Head(names)) >> ELSE << >>)
         \o MarkerLines(Tail(names), size, present)

\* the stderr transcripts of a copy of the files `names`
ScpTranscripts(names) ==
    { MarkerLines(names, size, present) :
        size \in SizeTokens,
        present \in SUBSET ({"Sending", "Sink"} \X SeqToSet(names)) }

\* lines of text qsub may print on stdout
JobLine == <<"1","0","4","4","0","0","2",".","p","b","s","p","l","1",".","n","a","s",".","n","a","s","a",".","g","o","v">>
NoIdLine == <<".","p","b","s","p","l","1",".","n","a","s",".","n","a","s","a",".","g","o","v">>
QsubNoise == <<"q","s","u","b",":"," ","e","r","r","o","r">>
SubmitLines == { JobLine, NoIdLine, QsubNoise }

\* the sequences of at most n elements of S
SeqsUpTo(S, n) == UNION { [1..k -> S] : k \in 0..n }

StateLine(code) == <<" ">> \o JobStateIs \o code
StatusNoise == <<"J","o","b"," ","I","d",":"," ","1">>
StatusLines ==
    { StateLine(<<"Q">>), StateLine(<<"R">>), StateLine(<<"E">>), StateLine(<<"F">>),
      StatusNoise }
FinishedLine == <<"q","s","t","a","t",":"," ">> \o JobHasFinished
StderrNoise == <<"W","a","r","n","i","n","g">>
StatusStderrs == { << >>, <<FinishedLine>>, <<StderrNoise, FinishedLine>> }
\* qdel prints nothing, or that the job it was to delete has finished
QdelFinishedLine == <<"q","d","e","l",":"," ">> \o JobHasFinished
QdelStderrs == { << >>, <<QdelFinishedLine>> }

\* what can be read from a child process of each kind: [stdout, stderr]
Outputs(proc) ==
    CASE proc.kind = "status" ->
           [stdout : SeqsUpTo(StatusLines, MaxLines), stderr : StatusStderrs]
      [] proc.kind = "submit" ->
           [stdout : SeqsUpTo(SubmitLines, MaxLines), stderr : {<< >>}]
      [] proc.kind \in {"push", "pull"} ->
           [stdout : {<< >>}, stderr : ScpTranscripts(proc.files)]
      [] proc.kind = "qdel" ->
           [stdout : {<< >>}, stderr : QdelStderrs]
      [] OTHER -> [stdout : {<< >>}, stderr : {<< >>}]

(***************************************************************************)
(* ExternalCode._check_for_files, as NasAccess uses it: the (iotype, path) *)
(* pairs of the listed files that do not exist; here the paths alone.      *)
(***************************************************************************)
\* _check_for_files reporting the first missing file only
_check_for_files_first(input) ==
    LET missing == SelectSeq(IF input THEN options.external_input_files
                                      ELSE options.external_output_files,
                             LAMBDA path : path \notin exists)
    IN  SubSeq(missing, 1, 1)

\* _check_for_files looking at the input files whatever `input` is
_check_for_files_InputsOnly(input) ==
    SelectSeq(options.external_input_files, LAMBDA path : path \notin exists)

_check_for_files(input) ==
    SelectSeq(IF input THEN options.external_input_files
                       ELSE options.external_output_files,
              LAMBDA path : path \notin exists)

(***************************************************************************)
(* _transfer_files_to_nas                                                  *)
(***************************************************************************)
\* [user@]host:working_directory
RemoteDirectory(o) ==
    (IF o.nas_username # << >> THEN o.nas_username \o <<"@">> ELSE << >>)
    \o o.nas_hostname \o <<":">> \o o.nas_working_directory

PushCommand(o) ==
    _sup_command[1] \o <<" ">> \o _scp_command[1] \o <<" ">>
    \o Join(o.external_input_files, <<" ">>) \o <<" ">> \o RemoteDirectory(o)

\* the pattern searched for the 'Sending file modes' line of a file sent
PushSendingPattern(filename) ==
    Literal(SendingFileModes) \o << OneLetter, Digits1, Lit(" "), OneDigit, Lit(" ") >>
    \o NameAsPattern(filename)
\* the pattern searched for the 'Sink' line of a file sent
PushSinkPattern(filename) ==
    Literal(Sink) \o << OneLetter, Digits1, Lit(" "), OneDigit, Lit(" ") >>
    \o NameAsPattern(filename)

\* filenames_with_errors: the files for which one of the two searches fails
FilenamesWithErrors(files, std_error) ==
    { f \in SeqToSet(files) :
        \/ ~Search(PushSendingPattern(f), std_error)
        \/ ~Search(PushSinkPattern(f), std_error) }

AttributeError ==
    Exception("AttributeError", <<"'NoneType' object has no attribute">>, << >>)

\* transfer_files_to_nas without the return on an empty list
transfer_files_to_nas_NoReturn ==
    /\ pc = "push"
    /\ UNCHANGED << options, exists, now, _sup_command, _scp_command, _job_id,
                    _pbs_server, captured, job_status, time_started,
                    time_since_start, pull_index, run_base, cancelVars >>
    /\ IF _check_for_files(TRUE) # << >>
       THEN /\ Raise(Exception("RuntimeError",
                               <<"The following input files are missing: ">>,
                               _check_for_files(TRUE)))
            /\ UNCHANGED << _process, procs >>
       ELSE /\ Spawn("push", PushCommand(options), options.external_input_files, "run")
            /\ pc' = "push_wait"
            /\ UNCHANGED error

\* lines 313-335: nothing to do, or the missing-files error, or the copy is spawned
transfer_files_to_nas ==
    /\ pc = "push"
    /\ UNCHANGED << options, exists, now, _sup_command, _scp_command, _job_id,
                    _pbs_server, captured, job_status, time_started,
                    time_since_start, pull_index, run_base, cancelVars >>
    /\ IF options.external_input_files = << >>
       THEN /\ pc' = "submit"
            /\ UNCHANGED << error, _process, procs >>
       ELSE IF _check_for_files(TRUE) # << >>
       THEN /\ Raise(Exception("RuntimeError",
                               <<"The following input files are missing: ">>,
                               _check_for_files(TRUE)))
            /\ UNCHANGED << _process, procs >>
       ELSE /\ Spawn("push", PushCommand(options), options.external_input_files, "run")
            /\ pc' = "push_wait"
            /\ UNCHANGED error

\* lines 337-359: the wait returns; the finally block verifies the transcript
transfer_files_to_nas_wait ==
    /\ pc = "push_wait"
    /\ UNCHANGED << options, exists, now, _sup_command, _scp_command, _job_id,
                    _pbs_server, job_status, time_started, time_since_start,
                    pull_index, run_base, cancelVars >>
    /\ IF _process = 0
       THEN /\ Raise(AttributeError)
            /\ UNCHANGED << _process, procs, captured >>
       ELSE \E w \in WaitResults, out \in Outputs(procs[_process]) :
              LET lines == out.stderr
                  bad == FilenamesWithErrors(options.external_input_files, ReadAll(lines))
              IN  /\ captured' = [op |-> "push", return_code |-> w.return_code,
                                  error_msg |-> w.error_msg, stdout |-> << >>,
                                  stderr |-> lines]
                  /\ CloseAndClear
                  /\ IF bad # {}
                     THEN \E order \in Orders(bad) :
                            Raise(Exception("RuntimeError", <<"Error sending files: ">>, order))
                     ELSE IF TruthyCode(w.return_code)
                     THEN Raise(Exception("RuntimeError", w.error_msg, << >>))
                     ELSE /\ pc' = "submit"
                          /\ UNCHANGED error

(***************************************************************************)
(* _submit_job                                                             *)
(***************************************************************************)
\* sup [-v] ssh <host>
SshCommand(o) == _sup_command[1] \o <<" ssh ">> \o o.nas_hostname

\* QsubCommand without the options
QsubCommand_NoOptions(o) == <<"qsub">> \o <<" ">> \o o.qsub_filepath

\* 'qsub' + ' ' + qsub_options + ' ' + qsub_file_path
QsubCommand(o) == <<"qsub">> \o <<" ">> \o o.qsub_options \o <<" ">> \o o.qsub_filepath

RECURSIVE ParseJob(_, _)
\* the loop over the lines of stdout: every line that contains self._nas_hostname
\* sets the handle to its first two dot-separated components (such a line has at
\* least three components, since the host name has two dots)
ParseJob(lines, handle) ==
    IF lines = << >> THEN handle
    ELSE ParseJob(Tail(lines),
                  IF Contains(Head(lines), nas_hostname_suffix)
                  THEN [job_id |-> Some(SplitOn(Head(lines), ".", << >>)[1]),
                        pbs_server |-> Some(SplitOn(Head(lines), ".", << >>)[2])]
                  ELSE handle)

NoHandle == [job_id |-> None, pbs_server |-> None]

\* lines 215-226: the qsub command is spawned
submit_job ==
    /\ pc = "submit"
    /\ Spawn("submit", SshCommand(options) \o <<" ">> \o QsubCommand(options), << >>, "run")
    /\ pc' = "submit_wait"
    /\ captured' = NothingCaptured
    /\ UNCHANGED << options, exists, now, error, _sup_command, _scp_command, _job_id,
                    _pbs_server, job_status, time_started, time_since_start,
                    pull_index, run_base, cancelVars >>

\* lines 229-246: the wait returns, stdout is parsed; line 197 on success
submit_job_wait ==
    /\ pc = "submit_wait"
    /\ UNCHANGED << options, exists, _sup_command, _scp_command, job_status,
                    time_since_start, pull_index, run_base, cancelVars >>
    /\ IF _process = 0
       THEN /\ Raise(AttributeError)
            /\ UNCHANGED << _process, procs, captured, _job_id, _pbs_server,
                            time_started, now >>
       ELSE \E out \in Outputs(procs[_process]) :
              LET lines == out.stdout
                  handle == ParseJob(lines, NoHandle)
              IN  /\ captured' = [NothingCaptured EXCEPT !.op = "submit", !.stdout = lines]
                  /\ _job_id' = handle.job_id
                  /\ _pbs_server' = handle.pbs_server
                  /\ CloseAndClear
                  /\ UNCHANGED now
                  /\ IF ~TruthyStr(handle.job_id) \/ ~TruthyStr(handle.pbs_server)
                     THEN /\ Raise(Exception("RuntimeError",
                                 <<"PBS job not started by NasAccess. qsub command used is: ">>
                                 \o QsubCommand(options), << >>))
                          /\ UNCHANGED time_started
                     ELSE /\ pc' = "poll"
                          /\ time_started' = now
                          /\ UNCHANGED error

(***************************************************************************)
(* job_status and the loop of solve_nonlinear                              *)
(***************************************************************************)
\* QstatCommand without the job id
QstatCommand_ServerOnly ==
    <<"qstat">> \o <<" -f ">> \o Format(_pbs_server) \o <<".">> \o nas_hostname_suffix

\* qstat -f <job id>.<server>.<host suffix>
QstatCommand ==
    <<"qstat">> \o <<" -f ">> \o Format(_job_id) \o <<".">> \o Format(_pbs_server)
    \o <<".">> \o nas_hostname_suffix

\* FirstJobState with 'Unknown' for None when no line contains 'job_state = '
FirstJobState_Default(lines) ==
    LET with == { i \in DOMAIN lines : Contains(lines[i], JobStateIs) }
    IN  IF with = {} THEN Some(Unknown)
        ELSE Some(SplitWhite(lines[CHOOSE i \in with : \A j \in with : i <= j], << >>)[3])

RECURSIVE FirstJobState(_)
\* the scan of stdout: the third word of the first line containing 'job_state = '
\* (None when no line contains it)
FirstJobState(lines) ==
    IF lines = << >> THEN None
    ELSE IF Contains(Head(lines), JobStateIs)
         THEN Some(SplitWhite(Head(lines), << >>)[3])
    ELSE FirstJobState(Tail(lines))

\* Classify with standard output scanned before the error stream is looked at
Classify_StdoutFirst(stdout_lines, stderr_lines) ==
    IF FirstJobState(stdout_lines) # None
    THEN FirstJobState(stdout_lines)
    ELSE IF stderr_lines # << >> /\ Contains(stderr_lines[1], JobHasFinished)
         THEN Some(Finished)
    ELSE None

\* lines 285-297: the status read from the two streams
Classify(stdout_lines, stderr_lines) ==
    IF stderr_lines # << >> /\ Contains(stderr_lines[1], JobHasFinished)
    THEN Some(Finished)
    ELSE FirstJobState(stdout_lines)

\* lines 200, 268-278: the loop calls job_status, which spawns qstat
job_status_call ==
    /\ pc = "poll"
    /\ Spawn("status", SshCommand(options) \o <<" ">> \o QstatCommand, << >>, "run")
    /\ pc' = "status_wait"
    /\ captured' = NothingCaptured
    /\ UNCHANGED << options, exists, now, error, _sup_command, _scp_command, _job_id,
                    _pbs_server, job_status, time_started, time_since_start,
                    pull_index, run_base, cancelVars >>

\* lines 281-305: the wait returns, the streams of self._process are read and
\* closed, the status is returned
job_status_wait ==
    /\ pc = "status_wait"
    /\ UNCHANGED << options, exists, now, _sup_command, _scp_command, _job_id,
                    _pbs_server, time_started, time_since_start, pull_index,
                    run_base, cancelVars >>
    /\ IF _process = 0
       THEN /\ Raise(AttributeError)
            /\ UNCHANGED << _process, procs, captured, job_status >>
       ELSE \E out \in Outputs(procs[_process]) :
              LET status == Classify(out.stdout, out.stderr)
              IN  /\ captured' = [NothingCaptured EXCEPT !.op = "status",
                                                         !.stdout = out.stdout,
                                                         !.stderr = out.stderr]
                  /\ CloseAndClear
                  /\ IF status = None
                     THEN /\ Raise(Exception("RuntimeError",
                                             <<"Unable to determine status of job">>, << >>))
                          /\ UNCHANGED job_status
                     ELSE /\ job_status' = status[1]
                          /\ pc' = "returned"
                          /\ UNCHANGED error

\* loop_test leaving the loop on any status
loop_test_AnyStatus ==
    /\ pc = "returned"
    /\ captured' = NothingCaptured
    /\ pc' = "pull"
    /\ pull_index' = 1
    /\ UNCHANGED << options, exists, now, error, _sup_command, _scp_command, _job_id,
                    _pbs_server, _process, procs, job_status, time_started,
                    time_since_start, run_base, cancelVars >>

\* lines 200-202: the loop takes the status and leaves when it is 'Finished'
loop_test ==
    /\ pc = "returned"
    /\ captured' = NothingCaptured
    /\ IF job_status = Finished
       THEN pc' = "pull" /\ pull_index' = 1
       ELSE pc' = "check" /\ UNCHANGED pull_index
    /\ UNCHANGED << options, exists, now, error, _sup_command, _scp_command, _job_id,
                    _pbs_server, _process, procs, job_status, time_started,
                    time_since_start, run_base, cancelVars >>

\* TimedOut without the test that the timeout is positive
TimedOut_ZeroCounts(o, elapsed) == elapsed > o.job_completion_timeout

\* TimedOut never true
TimedOut_Never(o, elapsed) == FALSE

\* TimedOut with >= for >
TimedOut_AtLeast(o, elapsed) ==
    o.job_completion_timeout > 0 /\ elapsed >= o.job_completion_timeout

\* job_completion_timeout > 0.0 and time_since_start > job_completion_timeout
TimedOut(o, elapsed) ==
    o.job_completion_timeout > 0 /\ elapsed > o.job_completion_timeout

\* timeout_check deleting the job (qdel) before it raises the timeout error
timeout_check_Deleting ==
    /\ pc = "check"
    /\ time_since_start' = now - time_started
    /\ IF TimedOut(options, now - time_started)
       THEN /\ Raise(Exception("ValueError",
                  <<"NasAccess job time took longer than job_completion_timeout">>, << >>))
            /\ procs' = Append(procs, ShellProc("qdel", << >>, << >>, "run"))
       ELSE pc' = "sleep" /\ UNCHANGED << error, procs >>
    /\ UNCHANGED << options, exists, now, _sup_command, _scp_command, _job_id,
                    _pbs_server, _process, captured, job_status, time_started,
                    pull_index, run_base, cancelVars >>

\* lines 203-205: the clock is read and compared with the timeout
timeout_check ==
    /\ pc = "check"
    /\ time_since_start' = now - time_started
    /\ IF TimedOut(options, now - time_started)
       THEN Raise(Exception("ValueError",
                  <<"NasAccess job time took longer than job_completion_timeout">>, << >>))
       ELSE pc' = "sleep" /\ UNCHANGED error
    /\ UNCHANGED << options, exists, now, _sup_command, _scp_command, _job_id,
                    _pbs_server, _process, procs, captured, job_status, time_started,
                    pull_index, run_base, cancelVars >>

\* sleep followed at once by the call of job_status, whatever time has passed
sleep_ThenCheck ==
    /\ pc = "sleep"
    /\ now + options.job_status_poll_delay <= MaxTime
    /\ now' = now + options.job_status_poll_delay
    /\ time_since_start' = now' - time_started
    /\ IF TimedOut(options, now' - time_started)
       THEN Raise(Exception("ValueError",
                  <<"NasAccess job time took longer than job_completion_timeout">>, << >>))
       ELSE pc' = "poll" /\ UNCHANGED error
    /\ UNCHANGED << options, exists, _sup_command, _scp_command, _job_id,
                    _pbs_server, _process, procs, captured, job_status, time_started,
                    pull_index, run_base, cancelVars >>

\* line 206: time.sleep(job_status_poll_delay)
sleep ==
    /\ pc = "sleep"
    /\ now + options.job_status_poll_delay <= MaxTime
    /\ now' = now + options.job_status_poll_delay
    /\ pc' = "poll"
    /\ UNCHANGED << options, exists, error, _sup_command, _scp_command, _job_id,
                    _pbs_server, _process, procs, captured, job_status, time_started,
                    time_since_start, pull_index, run_base, cancelVars >>

\* the wall clock advances; it is read only at lines 197 and 203, so it is moved
\* just before the read of line 203
Tick ==
    /\ pc = "check"
    /\ now < MaxTime
    /\ now' = now + 1
    /\ UNCHANGED << options, exists, _sup_command, _scp_command, _job_id, _pbs_server,
                    _process, procs, runVars, cancelVars >>

(***************************************************************************)
(* _transfer_files_from_nas                                                *)
(***************************************************************************)
\* os.path.basename and os.path.dirname of a relative path
Basename(path) == LET parts == SplitOn(path, "/", << >>) IN parts[Len(parts)]
Dirname(path) ==
    LET parts == SplitOn(path, "/", << >>)
    IN  Join(SubSeq(parts, 1, Len(parts) - 1), <<"/">>)

PullCommand(o, filepath) ==
    _sup_command[1] \o <<" ">> \o _scp_command[1] \o <<" ">> \o RemoteDirectory(o)
    \o <<"/">> \o filepath
    \o (IF Dirname(filepath) # << >> THEN <<" ">> \o Dirname(filepath) ELSE <<" .">>)

PullSendingPattern(filename) ==
    Literal(SendingFileModes) \o << OneLetter, Digits1, Lit(" "), Digits1, Lit(" ") >>
    \o NameAsPattern(filename)
PullSinkPattern(filename) ==
    Literal(Sink) \o << OneLetter, Digits1, Lit(" "), Digits1, Lit(" ") >>
    \o NameAsPattern(filename)

\* Received without any search of the transcript
Received_Always(filepath, std_error) == TRUE

\* lines 427-435: both searches succeed for the basename of the file
Received(filepath, std_error) ==
    /\ Search(PullSendingPattern(Basename(filepath)), std_error)
    /\ Search(PullSinkPattern(Basename(filepath)), std_error)

\* lines 368-370, 394-410 and 437-442: nothing to do, or the next file's copy is
\* spawned, or, after the last file, the check that the files are there
transfer_files_from_nas ==
    /\ pc = "pull"
    /\ captured' = NothingCaptured
    /\ UNCHANGED << options, exists, now, _sup_command, _scp_command, _job_id,
                    _pbs_server, job_status, time_started, time_since_start,
                    pull_index, run_base, cancelVars >>
    /\ IF options.external_output_files = << >>
       THEN /\ pc' = "done"
            /\ UNCHANGED << error, _process, procs >>
       ELSE IF pull_index <= Len(options.external_output_files)
       THEN /\ Spawn("pull", PullCommand(options, options.external_output_files[pull_index]),
                     << Basename(options.external_output_files[pull_index]) >>, "run")
            /\ pc' = "pull_wait"
            /\ UNCHANGED error
       ELSE /\ UNCHANGED << _process, procs >>
            /\ IF _check_for_files(FALSE) # << >>
               THEN Raise(Exception("RuntimeError",
                                    <<"The following output files are missing: ">>,
                                    _check_for_files(FALSE)))
               ELSE pc' = "done" /\ UNCHANGED error

\* lines 412-435: the wait returns; the finally block reads stderr, closes the
\* process and verifies the transcript.  The copy may or may not have made the file.
transfer_files_from_nas_wait ==
    /\ pc = "pull_wait"
    /\ UNCHANGED << options, now, _sup_command, _scp_command, _job_id, _pbs_server,
                    job_status, time_started, time_since_start, run_base, cancelVars >>
    /\ IF _process = 0
       THEN /\ Raise(AttributeError)
            /\ UNCHANGED << _process, procs, captured, exists, pull_index >>
       ELSE \E w \in WaitResults, out \in Outputs(procs[_process]), made \in BOOLEAN :
              LET filepath == options.external_output_files[pull_index]
              IN  /\ captured' = [op |-> "pull", return_code |-> w.return_code,
                                  error_msg |-> w.error_msg, stdout |-> << >>,
                                  stderr |-> out.stderr]
                  /\ exists' = IF made THEN exists \cup {filepath} ELSE exists
                  /\ CloseAndClear
                  /\ IF ~Received(filepath, ReadAll(out.stderr))
                     THEN /\ Raise(Exception("RuntimeError", <<"Error receiving file: ">>,
                                             << filepath >>))
                          /\ UNCHANGED pull_index
                     ELSE IF TruthyCode(w.return_code)
                     THEN /\ Raise(Exception("RuntimeError", w.error_msg, << >>))
                          /\ UNCHANGED pull_index
                     ELSE /\ pc' = "pull"
                          /\ pull_index' = pull_index + 1
                          /\ UNCHANGED error

(***************************************************************************)
(* delete_job, which another context may call when no run is under way or  *)
(* while solve_nonlinear polls.  Between the return of job_status and the   *)
(* next call of it solve_nonlinear does not touch self._process, so a step  *)
(* of delete_job taken there is taken just before the next call instead.    *)
(***************************************************************************)
\* QdelCommand naming the job as qstat does, with the server and the host suffix
QdelCommand_FullName ==
    <<"qdel">> \o <<" ">> \o Format(_job_id) \o <<".">> \o Format(_pbs_server)
    \o <<".">> \o nas_hostname_suffix

QdelCommand == <<"qdel">> \o <<" ">> \o Format(_job_id)

\* lines 449-459: the command is built from self._sup_command and spawned
\* (at most MaxCancels calls get as far as spawning)
delete_job ==
    /\ cpc = "idle"
    /\ Cardinality({ i \in DOMAIN procs : procs[i].kind = "qdel" }) < MaxCancels
    /\ pc \in {"idle", "poll", "status_wait", "done", "failed"}
    /\ UNCHANGED << options, exists, now, _sup_command, _scp_command, _job_id,
                    _pbs_server, runVars >>
    /\ IF _sup_command = None
       THEN /\ cerror' = AttributeError
            /\ UNCHANGED << cpc, _process, procs >>
       ELSE /\ Spawn("qdel", SshCommand(options) \o <<" ">> \o QdelCommand, << >>, "cancel")
            /\ cpc' = "wait"
            /\ cerror' = NoError

\* lines 462-469: the wait returns; self._process is closed and cleared
delete_job_wait ==
    /\ cpc = "wait"
    /\ pc \notin {"returned", "check", "sleep"}
    /\ cpc' = "idle"
    /\ UNCHANGED << options, exists, now, _sup_command, _scp_command, _job_id,
                    _pbs_server, runVars >>
    /\ IF _process = 0
       THEN /\ cerror' = AttributeError
            /\ UNCHANGED << _process, procs >>
       ELSE /\ CloseAndClear
            /\ UNCHANGED cerror

Next ==
    \/ solve_nonlinear
    \/ transfer_files_to_nas
    \/ transfer_files_to_nas_wait
    \/ submit_job
    \/ submit_job_wait
    \/ job_status_call
    \/ job_status_wait
    \/ loop_test
    \/ timeout_check
    \/ sleep
    \/ Tick
    \/ transfer_files_from_nas
    \/ transfer_files_from_nas_wait
    \/ delete_job
    \/ delete_job_wait

Spec == Init /\ [][Next]_vars

(***************************************************************************)
(* The same instance run again: solve_nonlinear has no test of what an     *)
(* earlier call did, so the caller may call it once more when a call has   *)
(* returned or raised.                                                     *)
(***************************************************************************)
\* lines 169-187, called on an instance that has run before
solve_nonlinear_again ==
    /\ pc \in {"done", "failed"}
    /\ cpc = "idle"
    /\ run_base' = Len(procs)
    /\ captured' = NothingCaptured
    /\ job_status' = Unknown
    /\ time_started' = 0
    /\ time_since_start' = 0
    /\ pull_index' = 0
    /\ UNCHANGED << options, exists, now, _job_id, _pbs_server, _process, procs,
                    cancelVars >>
    /\ IF MissingOption(options) # None
       THEN /\ Raise(Exception("ValueError",
                        <<"The option '">> \o MissingOption(options)[1] \o <<"' must be set">>,
                        << >>))
            /\ UNCHANGED << _sup_command, _scp_command >>
       ELSE /\ _sup_command' = Some(SupCommand(options))
            /\ _scp_command' = Some(ScpCommand(options))
            /\ pc' = "push"
            /\ error' = NoError

NextAgain == Next \/ solve_nonlinear_again

(***************************************************************************)
(* The run under the assumptions that every child process completes, that  *)
(* the thread of the run goes on, and that the wall clock advances between  *)
(* two of its readings at line 203 (a status query and a sleep take time).  *)
(* No other context calls delete_job meanwhile.                            *)
(***************************************************************************)
\* the clock has advanced since the last reading of it (line 197 or line 203)
ClockAdvanced == now - time_started > time_since_start

\* lines 203-205, the clock having advanced
timeout_check_later == ClockAdvanced /\ timeout_check

\* a step of the thread of the run
RunStep ==
    \/ transfer_files_to_nas
    \/ transfer_files_to_nas_wait
    \/ submit_job
    \/ submit_job_wait
    \/ job_status_call
    \/ job_status_wait
    \/ loop_test
    \/ timeout_check_later
    \/ sleep
    \/ transfer_files_from_nas
    \/ transfer_files_from_nas_wait

NextLive ==
    \/ solve_nonlinear
    \/ RunStep
    \/ Tick

SpecLive == Init /\ [][NextLive]_vars /\ WF_vars(RunStep) /\ WF_vars(Tick)

SpecAgain == Init /\ [][NextAgain]_vars

(***************************************************************************)
(* Properties.                                                             *)
(***************************************************************************)
TimeoutError ==
    Exception("ValueError",
              <<"NasAccess job time took longer than job_completion_timeout">>, << >>)
OptionError(name) ==
    Exception("ValueError", <<"The option '", name, "' must be set">>, << >>)
RequiredOptions == {"qsub_filepath", "nas_working_directory", "nas_hostname"}

\* C1: when nas_working_directory, nas_hostname or qsub_filepath is empty, a run
\* fails with the error that names one of the empty options, and no child
\* process has been spawned.
C1_EmptyOptionFailsBeforeSpawn ==
    ( /\ pc # "idle"
      /\ \/ options.nas_working_directory = << >>
         \/ options.nas_hostname = << >>
         \/ options.qsub_filepath = << >> )
    => /\ pc = "failed"
       /\ \E name \in RequiredOptions : error = OptionError(name) /\ options[name] = << >>
       /\ procs = << >>

C1_Witness ==
    /\ pc = "failed"
    /\ options.nas_hostname = << >>
    /\ options.nas_working_directory # << >>
    /\ options.qsub_filepath # << >>
    /\ error = OptionError("nas_hostname")

\* C2: with a timeout T > 0, a timeout check (lines 203-205) ends the run with
\* the timeout error exactly when the elapsed time it reads is greater than T: a
\* check at elapsed <= T lets the loop go on to its sleep.
C2_TimeoutBoundary ==
    [][ ( /\ pc = "check"
          /\ pc' # "check"
          /\ options.job_completion_timeout > 0 )
        => /\ time_since_start' = now - time_started
           /\ IF now - time_started > options.job_completion_timeout
              THEN pc' = "failed" /\ error' = TimeoutError
              ELSE pc' = "sleep" /\ error' = error ]_vars

C2_Witness ==
    /\ pc = "failed"
    /\ error = TimeoutError
    /\ time_since_start = options.job_completion_timeout + 1
    /\ Len(procs) >= 2

\* the lines of `lines` that contain `text`
LinesWith(lines, text) == { i \in DOMAIN lines : Contains(lines[i], text) }

\* C3 (as claimed): when stdout of the status query has a `job_state = F` line
\* (and no other job_state line) and stderr has no 'Job has finished', the status
\* returned is 'Finished', with which the loop goes on to the pull.
C3_StateFIsFinished ==
    ( /\ captured.op = "status"
      /\ LinesWith(captured.stdout, JobStateIs) # {}
      /\ \A i \in LinesWith(captured.stdout, JobStateIs) :
            captured.stdout[i] = StateLine(<<"F">>)
      /\ LinesWith(captured.stderr, JobHasFinished) = {} )
    => /\ job_status = Finished
       /\ pc = "returned"

\* a line of a submission transcript that names a job: it contains the host
\* suffix and starts with two non-empty dot-separated components
IsJobLine(line) ==
    /\ Contains(line, nas_hostname_suffix)
    /\ Len(SplitOn(line, ".", << >>)) >= 3
    /\ SplitOn(line, ".", << >>)[1] # << >>
    /\ SplitOn(line, ".", << >>)[2] # << >>

\* C4 (as claimed): when some line of the submission transcript names a job,
\* the submit succeeds with the handle of such a line, whatever the other lines.
C4_JobLineGivesHandle ==
    ( /\ captured.op = "submit"
      /\ \E i \in DOMAIN captured.stdout : IsJobLine(captured.stdout[i]) )
    => /\ pc = "poll"
       /\ \E i \in DOMAIN captured.stdout :
            /\ IsJobLine(captured.stdout[i])
            /\ _job_id = Some(SplitOn(captured.stdout[i], ".", << >>)[1])
            /\ _pbs_server = Some(SplitOn(captured.stdout[i], ".", << >>)[2])

SubmissionError(command) ==
    Exception("RuntimeError",
              <<"PBS job not started by NasAccess. qsub command used is: ">> \o command,
              << >>)
\* qsub <options> <filepath>, from the options
QsubAttempted == <<"qsub", " ">> \o options.qsub_options \o <<" ">> \o options.qsub_filepath
EndsWith(text, tail) ==
    /\ Len(text) >= Len(tail)
    /\ SubSeq(text, Len(text) - Len(tail) + 1, Len(text)) = tail

\* C5 (as claimed): when no line of the submission transcript contains the
\* nas_hostname option, the submit fails with the error that embeds the qsub
\* command, and there is no job handle (not both fields non-empty).
C5_NoOptionHostLineFails ==
    ( /\ captured.op = "submit"
      /\ \A i \in DOMAIN captured.stdout :
            ~Contains(captured.stdout[i], options.nas_hostname) )
    => /\ pc = "failed"
       /\ error = SubmissionError(QsubAttempted)
       /\ ~(TruthyStr(_job_id) /\ TruthyStr(_pbs_server))

\* C5 (amended): when no line of the submission transcript contains the fixed
\* host suffix 'nas.nasa.gov', the submit fails with the error whose message
\* ends with the qsub command `qsub <options> <filepath>` that the spawned
\* command line ends with, and there is no job handle.
C5_NoSuffixLineFails ==
    ( /\ captured.op = "submit"
      /\ \A i \in DOMAIN captured.stdout :
            ~Contains(captured.stdout[i], nas_hostname_suffix) )
    => /\ pc = "failed"
       /\ error = SubmissionError(QsubAttempted)
       /\ \E k \in DOMAIN procs :
            procs[k].kind = "submit" /\ EndsWith(procs[k].command, QsubAttempted)
       /\ _job_id = None
       /\ _pbs_server = None

C5_Witness ==
    /\ captured.op = "submit"
    /\ captured.stdout = << QsubNoise >>
    /\ pc = "failed"
    /\ error = SubmissionError(QsubAttempted)

MissingInputs == { f \in SeqToSet(options.external_input_files) : f \notin exists }

\* C6: when a listed input file does not exist, the push fails with the error
\* that lists the nonexistent input files, all of them and no other, and no copy
\* process is spawned.
C6_MissingInputsFailBeforeSpawn ==
    ( /\ pc \notin {"idle", "push"}
      /\ MissingOption(options) = None
      /\ MissingInputs # {} )
    => /\ pc = "failed"
       /\ error.type = "RuntimeError"
       /\ error.text = <<"The following input files are missing: ">>
       /\ SeqToSet(error.args) = MissingInputs
       /\ \A k \in DOMAIN procs : procs[k].kind \notin {"push", "submit"}

C6_Witness ==
    /\ pc = "failed"
    /\ options.external_input_files = << FileA, FileAB >>
    /\ exists = {}
    /\ error.args = << FileA, FileAB >>

\* both marker lines of a file, with the same size token, are lines of the transcript
BothMarkers(lines, name) ==
    \E size \in SizeTokens :
        /\ \E i \in DOMAIN lines : lines[i] = SendingLine(size, name)
        /\ \E i \in DOMAIN lines : lines[i] = SinkLine(size, name)

SendingError == <<"Error sending files: ">>
ReceivingError == <<"Error receiving file: ">>
\* the files the push reported as not sent
FailedToSend ==
    IF pc = "failed" /\ error.text = SendingError THEN SeqToSet(error.args) ELSE {}

\* C7 (as claimed): in push and in pull, a file whose two marker lines are in
\* the transcript is verified, whatever the number of digits of the size.
C7_MarkersVerifyAnySize ==
    /\ captured.op = "push" =>
          \A f \in SeqToSet(options.external_input_files) :
              BothMarkers(captured.stderr, f) => f \notin FailedToSend
    /\ ( captured.op = "pull" /\ pc = "failed" /\ error.text = ReceivingError ) =>
          ~BothMarkers(captured.stderr, Basename(error.args[1]))

\* every line of the transcript carries the one-digit size
OneDigitSizes(lines, names) ==
    \A i \in DOMAIN lines :
        \E f \in SeqToSet(names) :
            lines[i] \in { SendingLine(<<"6">>, f), SinkLine(<<"6">>, f) }

\* C8 (as claimed, for one-digit sizes): a pushed file fails verification exactly
\* when one of its own two marker lines is absent, whatever the markers of the
\* other files.
C8_VerdictPerFile ==
    ( /\ captured.op = "push"
      /\ OneDigitSizes(captured.stderr, options.external_input_files) )
    => \A f \in SeqToSet(options.external_input_files) :
          (f \in FailedToSend) <=> ~BothMarkers(captured.stderr, f)

\* the pushed files of which a marker line is absent
LackingMarker ==
    { f \in SeqToSet(options.external_input_files) : ~BothMarkers(captured.stderr, f) }

\* C9 (as claimed): when the push process exits with 0 and a marker of a pushed
\* file is absent, the push fails with the error that lists every file lacking
\* a marker, and the run does not go on to submit.
C9_UnverifiedFilesFail ==
    ( /\ captured.op = "push"
      /\ captured.return_code = Some(0)
      /\ LackingMarker # {} )
    => /\ pc = "failed"
       /\ error.text = SendingError
       /\ LackingMarker \subseteq SeqToSet(error.args)

\* C10 (as claimed): when the push process exits with a non-zero code, the push
\* fails with the error whose message is the process's error text, whatever the
\* transcript.
C10_NonZeroExitCarriesText ==
    ( /\ captured.op = "push"
      /\ TruthyCode(captured.return_code) )
    => /\ pc = "failed"
       /\ Message(error) = captured.error_msg

\* C11: whenever the first line of the error stream a status query read contains
\* 'Job has finished', job_status returns 'Finished', whatever standard output
\* holds (a job_state line with another code, or no job_state line).
C11_FinishedPhraseWins ==
    ( /\ captured.op = "status"
      /\ captured.stderr # << >>
      /\ Contains(captured.stderr[1], JobHasFinished) )
    => /\ pc = "returned"
       /\ job_status = Finished

C11_Witness ==
    /\ captured.op = "status"
    /\ captured.stderr = <<FinishedLine>>
    /\ captured.stdout = <<StatusNoise, StateLine(<<"Q">>)>>
    /\ pc = "returned"
    /\ job_status = Finished

\* the lifecycle state the claim gives for a scheduler code
StateOfCode(code) ==
    CASE code = <<"Q">> -> <<"Q","u","e","u","e","d">>
      [] code = <<"R">> -> <<"R","u","n","n","i","n","g">>
      [] code = <<"E">> -> <<"E","x","i","t","i","n","g">>
      [] OTHER -> code

\* C12 (as claimed): when no line of the error stream contains 'Job has finished'
\* and standard output has a `job_state = X` line, job_status returns the
\* lifecycle state of the code X of the first such line: Queued for Q, Running
\* for R, Exiting for E.
C12_CodeMappedToState ==
    ( /\ captured.op = "status"
      /\ LinesWith(captured.stderr, JobHasFinished) = {}
      /\ \E code \in {<<"Q">>, <<"R">>, <<"E">>} :
            FirstJobState(captured.stdout) = Some(code) )
    => /\ pc = "returned"
       /\ job_status = StateOfCode(FirstJobState(captured.stdout)[1])

StatusUnknownError ==
    Exception("RuntimeError", <<"Unable to determine status of job">>, << >>)
\* the child processes the run has spawned, in the order of their spawning
RunProcs == SelectSeq(procs, LAMBDA p : p.by = "run")

\* C13: when the first line of the error stream a status query read lacks 'Job
\* has finished' and no line of its standard output contains 'job_state = ', the
\* run fails with the status error for good: that query stays the last process
\* the run has spawned (no further status query, no pull).
C13_NoSignalIsFatal ==
    ( /\ captured.op = "status"
      /\ ~(captured.stderr # << >> /\ Contains(captured.stderr[1], JobHasFinished))
      /\ LinesWith(captured.stdout, JobStateIs) = {} )
    => /\ pc = "failed"
       /\ error = StatusUnknownError
       /\ RunProcs[Len(RunProcs)].kind = "status"
       /\ \A i \in DOMAIN RunProcs : RunProcs[i].kind # "pull"

C13_Witness ==
    /\ captured.op = "status"
    /\ captured.stdout = <<StatusNoise>>
    /\ captured.stderr = <<StderrNoise, FinishedLine>>
    /\ pc = "failed"
    /\ error = StatusUnknownError
    /\ Len(RunProcs) >= 2

\* C14: with job_completion_timeout = 0 the run never fails with the timeout
\* error, whatever the time elapsed and the statuses seen; it is past the loop
\* only with the status 'Finished', and a failure in the loop is an error
\* raised in job_status.
C14_ZeroTimeoutNeverTimesOut ==
    options.job_completion_timeout = 0
    => /\ error # TimeoutError
       /\ pc \in {"pull", "pull_wait", "done"} => job_status = Finished
       /\ ( /\ pc = "failed"
            /\ \E i \in DOMAIN RunProcs : RunProcs[i].kind = "status"
            /\ \A i \in DOMAIN RunProcs : RunProcs[i].kind # "pull" )
          => error \in {StatusUnknownError, AttributeError}

C14_Witness ==
    /\ options.job_completion_timeout = 0
    /\ pc = "sleep"
    /\ time_since_start = MaxTime
    /\ job_status = <<"R">>
    /\ Len(SelectSeq(procs, LAMBDA p : p.kind = "status")) >= 2

\* the run has ended with the timeout error
TimedOutRun == pc = "failed" /\ error = TimeoutError

\* C15: when the run has failed with the timeout error, it has spawned no qdel
\* (every process it spawned is a push, a submit or a status query), and the job
\* id, the server and the command prefix are still set, so that every qdel
\* there is comes from a call of delete_job and names that same job.
C15_TimeoutLeavesJob ==
    TimedOutRun
    => /\ \A i \in DOMAIN RunProcs : RunProcs[i].kind \in {"push", "submit", "status"}
       /\ TruthyStr(_job_id)
       /\ TruthyStr(_pbs_server)
       /\ _sup_command # None
       /\ \A i \in DOMAIN procs :
             procs[i].kind = "qdel"
             => /\ procs[i].by = "cancel"
                /\ procs[i].command =
                      SshCommand(options) \o <<" ", "qdel", " ">> \o _job_id[1]

C15_Witness ==
    /\ TimedOutRun
    /\ cpc = "wait"
    /\ procs[Len(procs)].kind = "qdel"
    /\ procs[Len(procs)].by = "cancel"
    /\ procs[Len(procs) - 1].kind = "status"
    /\ procs[Len(procs) - 1].closed

\* the child processes spawned by calls of delete_job
CancelProcs == SelectSeq(procs, LAMBDA p : p.by = "cancel")

\* C16: a call of delete_job made while there is a job id spawns exactly one
\* child process, with the command `<sup> ssh <host> qdel <job id>`, when it
\* starts and none when its wait returns; no process spawned by delete_job is a
\* status query, and its return leaves the run and the status it holds alone.
C16_OneQdelPerCall ==
    /\ [](\A i \in DOMAIN CancelProcs : CancelProcs[i].kind = "qdel")
    /\ [][ ( /\ cpc = "idle"
             /\ TruthyStr(_job_id)
             /\ cpc' # cpc \/ cerror' # cerror )
           => /\ cpc' = "wait"
              /\ procs' = Append(procs,
                    ShellProc("qdel",
                              _sup_command[1] \o <<" ssh ">> \o options.nas_hostname
                              \o <<" ", "qdel", " ">> \o _job_id[1],
                              << >>, "cancel")) ]_vars
    /\ [][ ( cpc = "wait" /\ cpc' # cpc )
           => /\ cpc' = "idle"
              /\ Len(procs') = Len(procs)
              /\ pc' = pc /\ job_status' = job_status ]_vars

C16_Witness ==
    /\ cpc = "idle"
    /\ Len(CancelProcs) = 1
    /\ CancelProcs[1].closed
    /\ CancelProcs[1].command =
          <<"sup", " ssh ">> \o options.nas_hostname \o <<" ", "qdel", " ">>
          \o <<"1","0","4","4","0","0","2">>
    /\ pc = "poll"
    /\ job_status = <<"Q">>

\* the place of a kind of process in the order of a run
Rank(kind) ==
    CASE kind = "push" -> 1 [] kind = "submit" -> 2 [] kind = "status" -> 3
      [] kind = "pull" -> 4 [] OTHER -> 0
\* the step spawns a process of this kind for the run
RunSpawns(kind) ==
    /\ Len(RunProcs') = Len(RunProcs) + 1
    /\ RunProcs'[Len(RunProcs')].kind = kind

\* the run's processes are in the order of the ranks, one push and one submit
\* at most
InRunOrder ==
    /\ \A k \in DOMAIN RunProcs : Rank(RunProcs[k].kind) >= 1
    /\ \A i, j \in DOMAIN RunProcs :
          i < j => /\ Rank(RunProcs[i].kind) <= Rank(RunProcs[j].kind)
                   /\ Rank(RunProcs[i].kind) \in {1, 2}
                         => Rank(RunProcs[i].kind) < Rank(RunProcs[j].kind)

\* C17: the processes a run spawns come in the order push, submit, status
\* queries, pulls, with at most one push and one submit; the submit is spawned
\* only after the push has returned without error (or with no input files), a
\* status query only while the job id and the server are set, a pull only when
\* the status returned is 'Finished'; and once the run has failed it spawns
\* no further process.
C17_OrderAndShortCircuit ==
    /\ []InRunOrder
    /\ [][ /\ RunSpawns("submit") =>
                /\ error = NoError
                /\ \/ options.external_input_files = << >> /\ RunProcs = << >>
                   \/ /\ captured.op = "push"
                      /\ RunProcs[Len(RunProcs)].kind = "push"
                      /\ RunProcs[Len(RunProcs)].closed
           /\ RunSpawns("status") =>
                /\ error = NoError
                /\ TruthyStr(_job_id) /\ TruthyStr(_pbs_server)
                /\ \E i \in DOMAIN RunProcs : RunProcs[i].kind = "submit"
           /\ RunSpawns("pull") =>
                /\ error = NoError
                /\ job_status = Finished
           /\ pc = "failed" => pc' = "failed" /\ Len(RunProcs') = Len(RunProcs) ]_vars

C17_Witness ==
    /\ Len(RunProcs) = 4
    /\ RunProcs[1].kind = "push"
    /\ RunProcs[2].kind = "submit"
    /\ RunProcs[3].kind = "status"
    /\ RunProcs[4].kind = "pull"
    /\ pc = "failed"
    /\ error.text = ReceivingError

MissingOutputsError == <<"The following output files are missing: ">>
\* the requested output files that are not there
AbsentOutputs == { f \in SeqToSet(options.external_output_files) : f \notin exists }

\* C18: once every requested output file has been pulled and its transcript
\* verified, the pull looks for every requested output file: if some are absent
\* it fails with the error that lists all of them, else it succeeds; so the
\* run is done only with all its output files there.
C18_OutputsRechecked ==
    /\ pc = "done" => AbsentOutputs = {} /\ error = NoError
    /\ ( pc = "failed" /\ error.text = MissingOutputsError )
       => /\ pull_index = Len(options.external_output_files) + 1
          /\ error.type = "RuntimeError"
          /\ SeqToSet(error.args) = AbsentOutputs
          /\ AbsentOutputs # {}
    /\ ( pc = "failed" /\ pull_index = Len(options.external_output_files) + 1 )
       => error.text = MissingOutputsError

C18_Witness ==
    /\ pc = "failed"
    /\ error.text = MissingOutputsError
    /\ error.args = <<FileDO, FileO>>
    /\ Len(SelectSeq(procs, LAMBDA p : p.kind = "pull" /\ p.closed)) = 2

\* C19: with no input files the run spawns no push and its first process is
\* the submit; with no output files the run spawns no pull and, once the status
\* 'Finished' has taken it out of the loop, ends in success.
C19_EmptyListsSpawnNothing ==
    /\ options.external_input_files = << >>
       => /\ \A i \in DOMAIN procs : procs[i].kind # "push"
          /\ RunProcs # << >> => RunProcs[1].kind = "submit"
          /\ pc # "push_wait"
    /\ options.external_output_files = << >>
       => /\ \A i \in DOMAIN procs : procs[i].kind # "pull"
          /\ pc # "pull_wait"
          /\ ( job_status = Finished /\ pc \notin {"returned", "pull"} )
             => pc = "done" /\ error = NoError

C19_Witness ==
    /\ options.external_input_files = << >>
    /\ options.external_output_files = << >>
    /\ pc = "done"
    /\ job_status = Finished
    /\ Len(RunProcs) = 2
    /\ RunProcs[1].kind = "submit"
    /\ RunProcs[2].kind = "status"

\* the step ends the run with the timeout error
RaisesTimeout == pc # "failed" /\ pc' = "failed" /\ error' = TimeoutError

\* C20 (as claimed): after a status that is not 'Finished' the loop sleeps before
\* it checks the timeout: no timeout error is raised between that status and
\* the sleep.
C20_SleepBeforeCheck ==
    [][ ( pc \in {"returned", "check"} /\ job_status # Finished ) => ~RaisesTimeout ]_vars

\* C20 (amended): after a status that is not 'Finished' the loop checks the
\* timeout before it sleeps: the timeout error is raised only between such a
\* status and the sleep, and the sleep is followed by the next status query
\* without any check.
C20_CheckBeforeSleep ==
    /\ [][ RaisesTimeout => pc = "check" /\ job_status # Finished ]_vars
    /\ [][ ( pc = "check" /\ pc' # pc ) => pc' = "sleep" \/ RaisesTimeout ]_vars
    /\ [][ ( pc = "sleep" /\ pc' # pc )
           => /\ pc' = "poll"
              /\ error' = NoError
              /\ now' = now + options.job_status_poll_delay ]_vars
    /\ [][ ( pc = "poll" /\ pc' # pc ) => pc' = "status_wait" /\ RunSpawns("status") ]_vars

C20_Witness ==
    /\ pc = "failed"
    /\ error = TimeoutError
    /\ now = options.job_completion_timeout + 1
    /\ options.job_status_poll_delay = 1
    /\ Len(SelectSeq(procs, LAMBDA p : p.kind = "status")) = 1

\* the run's child processes that have not been closed
Outstanding == { i \in DOMAIN RunProcs : ~RunProcs[i].closed }

\* C21 (as claimed): at any time at most one child process of the run is
\* outstanding: each push, submit, status query or pull is spawned only when the
\* processes the run spawned before it have been closed.
C21_OneOutstanding == Cardinality(Outstanding) <= 1

\* where the run is while one of its operations waits for its child process
WaitPcs == {"push_wait", "submit_wait", "status_wait", "pull_wait"}

\* C22 (as claimed): when a push, a submit, a status query or a pull has ended,
\* however it ended, every process the run spawned is closed; when delete_job
\* has ended, every process it spawned is closed; and with no operation under
\* way self._process is cleared.
C22_ClosedOnEveryExit ==
    /\ pc \notin WaitPcs => \A i \in DOMAIN RunProcs : RunProcs[i].closed
    /\ cpc = "idle" => \A i \in DOMAIN CancelProcs : CancelProcs[i].closed
    /\ ( pc \notin WaitPcs /\ cpc = "idle" ) => _process = 0

\* the submit of the run has returned a handle
SubmitSucceeded ==
    \/ pc \in {"poll", "status_wait", "returned", "check", "sleep", "pull", "pull_wait", "done"}
    \/ pc = "failed" /\ \E i \in DOMAIN RunProcs : RunProcs[i].kind = "status"
\* the command prefix `<sup> ssh <host>`
RelayPrefix == _sup_command[1] \o <<" ssh ">> \o options.nas_hostname

\* C23: once the submit has succeeded, the job id and the server are non-empty
\* and are those every status query and every qdel spawned so far was given:
\* no status query, poll iteration, pull or delete_job has changed them.
C23_HandleKept ==
    SubmitSucceeded
    => /\ TruthyStr(_job_id)
       /\ TruthyStr(_pbs_server)
       /\ \A i \in DOMAIN procs :
             /\ procs[i].kind = "status"
                => procs[i].command =
                     RelayPrefix \o <<" ", "qstat", " -f ">> \o _job_id[1] \o <<".">>
                     \o _pbs_server[1] \o <<".">> \o nas_hostname_suffix
             /\ procs[i].kind = "qdel"
                => procs[i].command = RelayPrefix \o <<" ", "qdel", " ">> \o _job_id[1]

C23_Witness ==
    /\ pc = "pull_wait"
    /\ _job_id = Some(<<"1","0","4","4","0","0","2">>)
    /\ _pbs_server = Some(<<"p","b","s","p","l","1">>)
    /\ \E i \in DOMAIN procs : procs[i].kind = "qdel"
    /\ \E i \in DOMAIN procs : procs[i].kind = "status"
    /\ \E i \in DOMAIN procs : procs[i].kind = "pull"

\* the processes of a kind spawned on the instance so far
OfKind(kind) == { i \in DOMAIN procs : procs[i].kind = kind }

\* C24 (as claimed): an instance stages and submits at most once, whatever the
\* calls made on it: a second run on it spawns no push and no submit.
C24_SingleUse ==
    /\ Cardinality(OfKind("push")) <= 1
    /\ Cardinality(OfKind("submit")) <= 1

\* the run can spawn no further process within MaxProcs
ProcsExhausted == Len(procs) >= MaxProcs /\ pc \in {"push", "submit", "poll", "pull"}

\* C25: with job_completion_timeout > 0, every child process completing and
\* the clock advancing, a run that has started comes to its end, in success or
\* with an error (or, in the model, to the last process MaxProcs allows): the
\* loop does not go on for ever.
C25_RunTerminates ==
    ( options.job_completion_timeout > 0 /\ pc # "idle" )
    ~> ( pc \in {"done", "failed"} \/ ProcsExhausted )

C25_Witness ==
    /\ options.job_completion_timeout > 0
    /\ TimedOutRun
    /\ options.job_status_poll_delay = 0
    /\ Cardinality(OfKind("status")) >= 2

\* C26 (as claimed): with delete_job interleaved with the status queries of the
\* loop, each operation closes only the process it spawned: while an operation
\* of the run waits, its process has not been closed by anyone else, likewise
\* for delete_job, and the run never finds self._process cleared under it.
C26_OwnProcessOnly ==
    /\ pc \in WaitPcs => ~RunProcs[Len(RunProcs)].closed
    /\ cpc = "wait" => ~CancelProcs[Len(CancelProcs)].closed
    /\ error # AttributeError

\* C27 (as claimed): delete_job spawns a qdel only for a job that was
\* submitted: every qdel there is names the non-empty job id of the handle, and
\* none was spawned while no submit had succeeded.
C27_QdelOnlyWithHandle ==
    \A i \in OfKind("qdel") :
        /\ TruthyStr(_job_id)
        /\ TruthyStr(_pbs_server)
        /\ procs[i].command = RelayPrefix \o <<" ", "qdel", " ">> \o _job_id[1]

\* the copies from NAS spawned so far, in the order of their spawning
Pulls == SelectSeq(procs, LAMBDA p : p.kind = "pull")

\* C28: the pull spawns one copy per output file, in the order of the list;
\* when the copy of a file exits with a non-zero code or its transcript lacks a
\* marker of the file, the pull fails there: no copy of a later file is
\* spawned and the error is not that of the final look for the files.
C28_PullStopsAtFirstFailure ==
    /\ Len(Pulls) <= Len(options.external_output_files)
    /\ \A k \in DOMAIN Pulls :
          /\ Pulls[k].command = PullCommand(options, options.external_output_files[k])
          /\ Pulls[k].files = << Basename(options.external_output_files[k]) >>
    /\ ( /\ captured.op = "pull"
         /\ \/ TruthyCode(captured.return_code)
            \/ ~BothMarkers(captured.stderr,
                            Basename(options.external_output_files[Len(Pulls)])) )
       => /\ pc = "failed"
          /\ error.type = "RuntimeError"
          /\ error.text # MissingOutputsError
          /\ pull_index = Len(Pulls)

C28_Witness ==
    /\ pc = "failed"
    /\ captured.op = "pull"
    /\ captured.return_code = Some(1)
    /\ BothMarkers(captured.stderr, Basename(options.external_output_files[1]))
    /\ Len(Pulls) = 1
    /\ Len(options.external_output_files) = 2
    /\ cpc = "idle"
====
